---- MODULE Spec2Model ----
(***************************************************************************)
(* Model of the linear-actuator control script src/actuator.py: the        *)
(* Modbus-style frame codec (modbus_crc, build_position_command,           *)
(* parse_motor_response_line), the session start-up sequence and the       *)
(* operator loop with its zero branch and its streaming loop.              *)
(*                                                                         *)
(* Bytes are integers 0..255 and frames are sequences of bytes.  The       *)
(* serial line is modelled by two byte sequences: inflight (bytes the      *)
(* device has sent that have not reached the host yet) and rx (the host's  *)
(* receive buffer, what socket.read and socket.in_waiting see).            *)
(***************************************************************************)
EXTENDS Integers, Sequences, FiniteSets, TLC

(* ----------------------------- bounds ---------------------------------- *)

\* frames written with socket.write in one session (the enable frame, the
\* probe frames and the move frames)
MaxWrites == 3

(* ------------------------- program constants --------------------------- *)

\* a Python value that is None or an integer: <<>> or <<v>>
NoneVal == <<>>
Some(v) == <<v>>
IsNone(o) == o = <<>>
Get(o) == o[1]

INT32_MAX == 2147483647

RESPONSE_LEN == 19
ACK_LEN == 8
FUNCTION_CODE == 100
KP_ADDR == 688
KI_ADDR == 690
KD_ADDR == 692

(* ------------------------------ CRC-16 --------------------------------- *)

RECURSIVE Xor(_, _)
\* bitwise exclusive or of two naturals (Python's ^ on non-negative ints)
Xor(a, b) ==
    IF a = 0 THEN b
    ELSE IF b = 0 THEN a
    ELSE (((a % 2) + (b % 2)) % 2) + 2 * Xor(a \div 2, b \div 2)

\* a shift round with a 17-bit constant, 0x1A001
CrcRoundWide(crc) ==
    IF crc % 2 = 1 THEN Xor(crc \div 2, 106497) ELSE crc \div 2

\* a shift round with the reflected CCITT polynomial 0x8408
CrcRoundCcitt(crc) ==
    IF crc % 2 = 1 THEN Xor(crc \div 2, 33800) ELSE crc \div 2

\* one of the 8 shift rounds of modbus_crc
CrcRound(crc) ==
    IF crc % 2 = 1 THEN Xor(crc \div 2, 40961) ELSE crc \div 2

RECURSIVE CrcRounds(_, _)
\* n shift rounds; the accumulator is a natural number, and each round's
\* value is computed before the next round is taken
CrcRounds(crc, n) ==
    IF n = 0 THEN crc
    ELSE LET next == CrcRound(crc)
         IN  IF next >= 0 THEN CrcRounds(next, n - 1) ELSE next

RECURSIVE CrcAcc(_, _)
\* the accumulator after the bytes of data have been processed, from crc
CrcAcc(crc, data) ==
    IF data = <<>> THEN crc
    ELSE LET next == CrcRounds(Xor(crc, Head(data)), 8)
         IN  IF next >= 0 THEN CrcAcc(next, Tail(data)) ELSE next

\* crc.to_bytes(2, byteorder='little')
ToBytesLE2(v) == <<v % 256, v \div 256>>

modbus_crc(data) == ToBytesLE2(CrcAcc(65535, data))

RECURSIVE TestCrcBits(_, _)
\* src/test.py, lines 8-13: the inner loop of its copy of modbus_crc, with n
\* rounds left
TestCrcBits(crc, n) ==
    IF n = 0 THEN crc
    ELSE LET shifted == crc \div 2
             next    == IF crc % 2 = 1 THEN Xor(shifted, 40961) ELSE shifted
         IN  IF next >= 0 THEN TestCrcBits(next, n - 1) ELSE next

RECURSIVE TestCrcBytes(_, _, _)
\* src/test.py, lines 6-13: the outer loop, from byte i of data
TestCrcBytes(crc, data, i) ==
    IF i > Len(data) THEN crc
    ELSE LET next == TestCrcBits(Xor(crc, data[i]), 8)
         IN  IF next >= 0 THEN TestCrcBytes(next, data, i + 1) ELSE next

\* src/test.py, lines 4-14: its copy of modbus_crc
test_modbus_crc(data) ==
    LET crc == TestCrcBytes(65535, data, 1) IN <<crc % 256, crc \div 256>>

\* src/test.py, lines 16-18: build_request()
test_build_request == <<1, 100, 17>> \o test_modbus_crc(<<1, 100, 17>>)

(* --------------------------- frame codec ------------------------------- *)

\* whether v = z + r is a signed 32-bit value, computed without leaving the
\* range of the model's integers (to_bytes raises OverflowError otherwise)
FitsInt32(z, r) ==
    IF r >= 0 THEN z <= INT32_MAX - r ELSE z >= (-INT32_MAX - 1) - r

\* the unsigned big-endian bytes of w, 0 <= w < 2^31, top bit taken from hi
BytesBE4(w, hi) ==
    <<hi + (w \div 16777216), (w \div 65536) % 256, (w \div 256) % 256, w % 256>>

\* the four bytes with the sign kept in a top bit and the magnitude after it
ToBytesSignMagnitude4(v) ==
    IF v >= 0 THEN BytesBE4(v, 0)
    ELSE IF v = (-INT32_MAX) - 1 THEN BytesBE4(0, 128)
    ELSE BytesBE4(0 - v, 128)

\* position_um.to_bytes(4, byteorder='big', signed=True)
ToBytesSigned4(v) ==
    IF v >= 0 THEN BytesBE4(v, 0) ELSE BytesBE4((v + INT32_MAX) + 1, 128)

\* int.from_bytes(b, byteorder='big', signed=True) for 4 bytes
FromBytesSigned4(b) ==
    IF b[1] < 128
    THEN b[1] * 16777216 + b[2] * 65536 + b[3] * 256 + b[4]
    ELSE (((b[1] - 128) * 16777216 + b[2] * 65536 + b[3] * 256 + b[4])
             - INT32_MAX) - 1

\* two bytes read low byte first
FromBytesLE2(b) == b[2] * 256 + b[1]

\* int.from_bytes(b, byteorder='big') for 2 bytes
FromBytesBE2(b) == b[1] * 256 + b[2]

build_position_command(position_um) ==
    LET request == <<1, 100, 30>> \o ToBytesSigned4(position_um)
    IN  request \o modbus_crc(request)

\* lines 32-37: the six values decoded from a 19-byte response
Telemetry(response) ==
    [pos     |-> FromBytesSigned4(SubSeq(response, 3, 6)),
     force   |-> FromBytesSigned4(SubSeq(response, 7, 10)),
     power   |-> FromBytesBE2(SubSeq(response, 11, 12)),
     temp    |-> response[13],
     voltage |-> FromBytesBE2(SubSeq(response, 14, 15)),
     errors  |-> FromBytesBE2(SubSeq(response, 16, 17))]

\* a parser that also turns away a response from another address or with a
\* CRC that does not match
parse_checking_frame(response) ==
    IF Len(response) # RESPONSE_LEN THEN NoneVal
    ELSE IF response[2] # FUNCTION_CODE THEN NoneVal
    ELSE IF response[1] # 1 THEN NoneVal
    ELSE IF SubSeq(response, 18, 19) # modbus_crc(SubSeq(response, 1, 17))
    THEN NoneVal
    ELSE Some(Telemetry(response).pos)

\* a parser that only turns away responses shorter than 19 bytes
parse_accepting_longer(response) ==
    IF Len(response) < RESPONSE_LEN THEN NoneVal
    ELSE IF response[2] # FUNCTION_CODE THEN NoneVal
    ELSE Some(Telemetry(response).pos)

\* the value parse_motor_response_line returns for a bytes object: None or
\* the position
parse_motor_response_line(response) ==
    IF Len(response) # RESPONSE_LEN THEN NoneVal
    ELSE IF response[2] # FUNCTION_CODE THEN NoneVal
    ELSE Some(Telemetry(response).pos)

\* what parse_motor_response_line prints for a bytes object (lines 25, 29
\* and 39): which line, and the values formatted into it
parse_prints(response) ==
    IF Len(response) # RESPONSE_LEN
    THEN [line |-> "Invalid response length or no response received.",
          shows |-> <<>>]
    ELSE IF response[2] # FUNCTION_CODE
    THEN [line |-> "Unexpected function code", shows |-> <<response[2]>>]
    ELSE [line |-> "pos", shows |-> <<Telemetry(response)>>]

\* a call of parse_motor_response_line on None or on a bytes object: line 24
\* tests `response is None` before it takes the length
ParseCall(o) ==
    IF IsNone(o)
    THEN [raises |-> "nothing", returns |-> NoneVal,
          prints |-> parse_prints(<<>>)]
    ELSE [raises |-> "nothing",
          returns |-> parse_motor_response_line(Get(o)),
          prints |-> parse_prints(Get(o))]

\* the frame enable_motion writes
EnableFrame ==
    LET raw == <<1, 100, 16, 0, 0, 0, 1>> IN raw \o modbus_crc(raw)

(* --------------------------- PID gains --------------------------------- *)

\* a Python float that a 32-bit float holds exactly and as a normal number
\* or a zero: (-1)^neg * m * 2^e with m below 2^24
Float(neg, m, e) == [neg |-> neg, m |-> m, e |-> e]

RECURSIVE BitLength(_)
\* the number of bits of m
BitLength(m) == IF m = 0 THEN 0 ELSE 1 + BitLength(m \div 2)

RECURSIVE Pow2(_)
Pow2(n) == IF n = 0 THEN 1 ELSE 2 * Pow2(n - 1)

\* the IEEE-754 single-precision fields of value: the sign bit as the top
\* bit of a byte, the biased exponent and the 23 fraction bits
Ieee(value) ==
    IF value.m = 0
    THEN [sign |-> IF value.neg THEN 128 ELSE 0, biased |-> 0, frac |-> 0]
    ELSE LET k == BitLength(value.m)
         IN  [sign   |-> IF value.neg THEN 128 ELSE 0,
              biased |-> value.e + (k - 1) + 127,
              frac   |-> value.m * Pow2(24 - k) - 8388608]

\* struct.pack('>f', value): the pattern, high byte first
PackFloatBE(value) ==
    LET f == Ieee(value)
    IN  <<f.sign + f.biased \div 2,
          (f.biased % 2) * 128 + f.frac \div 65536,
          (f.frac \div 256) % 256,
          f.frac % 256>>

\* line 45: struct.pack('<f', value), the pattern low byte first
PackFloatLE(value) ==
    LET b == PackFloatBE(value) IN <<b[4], b[3], b[2], b[1]>>

\* line 46: struct.unpack('>HH', b)
UnpackHH(b) == <<FromBytesBE2(SubSeq(b, 1, 2)), FromBytesBE2(SubSeq(b, 3, 4))>>

\* registers that carry the pattern high word first, high byte first
float_to_registers_big_endian(value) == UnpackHH(PackFloatBE(value))

\* lines 44-46
float_to_registers(value) == UnpackHH(PackFloatLE(value))

\* lines 58-60: 500.0, 0.0 and 0.0
kp == Float(FALSE, 125, 2)
ki == Float(FALSE, 0, 0)
kd == Float(FALSE, 0, 0)

\* lines 62-64
kp_regs == float_to_registers(kp)
ki_regs == float_to_registers(ki)
kd_regs == float_to_registers(kd)

\* lines 80-82: the values write_registers is given for each address
PidRegs(addr) ==
    CASE addr = KP_ADDR -> kp_regs [] addr = KI_ADDR -> ki_regs
      [] addr = KD_ADDR -> kd_regs

(* ------------------------- operator input ------------------------------ *)

\* user_input is a sequence of one-character strings
IsSpace(c) == c = " "

RECURSIVE LStrip(_)
LStrip(s) == IF s # <<>> /\ IsSpace(Head(s)) THEN LStrip(Tail(s)) ELSE s

RECURSIVE RStrip(_)
RStrip(s) ==
    IF s # <<>> /\ IsSpace(s[Len(s)]) THEN RStrip(SubSeq(s, 1, Len(s) - 1)) ELSE s

\* str.lower() on the letters the inputs use
LowerChar(c) ==
    CASE c = "Q" -> "q" [] c = "Z" -> "z" [] c = "I" -> "i" [] c = "N" -> "n"
      [] c = "F" -> "f" [] c = "A" -> "a" [] OTHER -> c

\* input(...).strip().lower()
StripLower(s) == LET t == RStrip(LStrip(s)) IN [i \in 1..Len(t) |-> LowerChar(t[i])]

IsDigit(c) == c \in {"0", "1", "2", "3", "4", "5", "6", "7", "8", "9"}

DigitVal(c) ==
    CASE c = "0" -> 0 [] c = "1" -> 1 [] c = "2" -> 2 [] c = "3" -> 3
      [] c = "4" -> 4 [] c = "5" -> 5 [] c = "6" -> 6 [] c = "7" -> 7
      [] c = "8" -> 8 [] c = "9" -> 9

AllDigits(s) == \A i \in 1..Len(s) : IsDigit(s[i])

RECURSIVE DigitsValue(_, _)
DigitsValue(acc, s) ==
    IF s = <<>> THEN acc ELSE DigitsValue(10 * acc + DigitVal(Head(s)), Tail(s))

\* an exception raised by the conversion, or its value
Raised(name) == [raises |-> name, value |-> 0]
Value(v) == [raises |-> "nothing", value |-> v]

\* int(float(user_input)) for the inputs of the model (an integer part of
\* at most 2147483647, which a float holds exactly, no exponent): the integer part, truncated toward zero; ValueError when
\* float() or int() raises it (not a number, nan), OverflowError when int()
\* raises it (an infinity)
IntOfFloat(s) ==
    LET neg  == s # <<>> /\ Head(s) = "-"
        body == IF s # <<>> /\ Head(s) \in {"+", "-"} THEN Tail(s) ELSE s
        dots == {i \in 1..Len(body) : body[i] = "."}
        d    == IF dots = {} THEN Len(body) + 1 ELSE CHOOSE i \in dots : TRUE
        ip   == SubSeq(body, 1, d - 1)
        fp   == SubSeq(body, d + 1, Len(body))
    IN  IF body \in {<<"i", "n", "f">>,
                     <<"i", "n", "f", "i", "n", "i", "t", "y">>}
        THEN Raised("OverflowError")
        ELSE IF body = <<"n", "a", "n">> THEN Raised("ValueError")
        ELSE IF Cardinality(dots) > 1 \/ ~AllDigits(ip) \/ ~AllDigits(fp)
                \/ Len(ip) + Len(fp) = 0
        THEN Raised("ValueError")
        ELSE Value(IF neg THEN 0 - DigitsValue(0, ip) ELSE DigitsValue(0, ip))

\* what the operator may type at the prompt
Inputs ==
    { <<"q">>, <<"z">>, <<" ", "Z">>, <<"1", "0", "0">>,
      <<"-", "3", "0", "0", ".", "5">>, <<"a", "b", "c">>,
      <<"i", "n", "f">>,
      <<"2", "1", "4", "7", "4", "8", "3", "6", "4", "7">> }

(* --------------------------- the device -------------------------------- *)

\* positions (um) the actuator may report
Positions == {500, -2000000}

\* function codes the device may answer with: the expected one and the
\* Modbus exception form of it (0x64 | 0x80)
FunctionCodes == {FUNCTION_CODE, 228}

\* a 19-byte response frame reporting position pos under function code fc
Response(fc, pos) ==
    LET body == <<1, fc>> \o ToBytesSigned4(pos) \o <<0, 0, 0, 0>>
                  \o <<0, 0>> \o <<25>> \o <<0, 0>> \o <<0, 0>>
    IN  body \o modbus_crc(body)

\* the frames the device may answer with: a position report, or an
\* exception report
Responses ==
    {Response(FUNCTION_CODE, p) : p \in Positions}
        \cup {Response(fc, 0) : fc \in FunctionCodes \ {FUNCTION_CODE}}

\* what the device may send back after a frame was written: nothing, or one
\* response frame
DeviceReplies == {<<>>} \cup Responses

\* how many bytes of what is in flight reach the receive buffer before a
\* blocking read returns: none, a first part, or all
PartialLen == 5

ArrivalCuts(fl) ==
    {0, Len(fl)} \cup (IF Len(fl) > PartialLen THEN {PartialLen} ELSE {})

\* socket.read(n) on receive buffer buf: the bytes returned
ReadBytes(buf, n) == SubSeq(buf, 1, IF Len(buf) < n THEN Len(buf) ELSE n)

\* socket.read(n) on receive buffer buf: the bytes left in the buffer
ReadRest(buf, n) == SubSeq(buf, (IF Len(buf) < n THEN Len(buf) ELSE n) + 1, Len(buf))

(* ------------------------------ state ---------------------------------- *)

VARIABLES
    pc,              \* position of the script
    connected,       \* the transport is open
    closeCount,      \* number of times client.close() released the transport
    exitPath,        \* how the session left its body ("none" while running)
    zero_offset_um,  \* global zero_offset_um
    position_um,     \* global position_um (None before the first number)
    target_um,       \* global target_um (its two terms when their sum is
                     \* outside the signed 32-bit range)
    full_request,    \* global full_request (empty before the first move)
    response,        \* global response: the bytes of the last read(19)
    parsed,          \* position the last read(19) was decoded to, or None
    rx,              \* the receive buffer of the serial port
    inflight,        \* bytes sent by the device that have not arrived yet
    wire,            \* the last frame written with socket.write
    nWritten,        \* number of frames written with socket.write
    commanded,       \* target of the last move frame the device was sent
    goodZero,        \* position decoded by the last zero that decoded one
    pidWrites,       \* per register address, the number of write_registers
    ackLen,          \* length of what enable_motion's read(8) returned
    nRead,           \* number of socket.read calls that have returned
    user_input,      \* the last line input() returned, stripped and lowered
                     \* (empty before the first one)
    registers,       \* per register address, the values write_registers
                     \* last wrote there (empty before the first write)
    staleBytes,      \* number of bytes that were on their way to a read
                     \* (in rx or in flight) when the last frame was
                     \* written; 0 once the read after it has returned
    fn,              \* the codec function applied on its own ("none" in a
                     \* session)
    arg,             \* the argument it is applied to
    out              \* what it returned and printed (empty before the call)

vars ==
    <<pc, connected, closeCount, exitPath, zero_offset_um, position_um,
      target_um, full_request, response, parsed, rx, inflight, wire,
      nWritten, commanded, goodZero, pidWrites, ackLen, nRead, user_input,
      registers, staleBytes, fn, arg, out>>

\* the variables of a codec function applied on its own
call == <<fn, arg, out>>

\* the variables of a session
session ==
    <<pc, connected, closeCount, exitPath, zero_offset_um, position_um,
      target_um, full_request, response, parsed, rx, inflight, wire,
      nWritten, commanded, goodZero, pidWrites, ackLen, nRead, user_input,
      registers, staleBytes>>

PidAddrs == {KP_ADDR, KI_ADDR, KD_ADDR}

\* lines 79-82: enable_motion and the register writes, outside the try
StartupPcs == {"enable_write", "enable_read", "pid688", "pid690", "pid692"}

\* lines 115-122: the streaming loop
StreamingPcs == {"stream_write", "stream_read", "stream_sleep"}

\* lines 86-122: the operator loop
LoopPcs == {"prompt", "zero_read"} \cup StreamingPcs

\* a try statement that ends before the streaming loop
InTryWithoutStreaming(p) == p \in {"prompt", "zero_read"}

\* lines 85-123: the body of the try statement holds the operator loop
InTry(p) == p \in LoopPcs

\* lines 58-76: the script's globals before client.connect()
SessionInit ==
    /\ pc = "connect"
    /\ connected = FALSE
    /\ closeCount = 0
    /\ exitPath = "none"
    /\ zero_offset_um = Some(0)
    /\ position_um = NoneVal
    /\ target_um = NoneVal
    /\ full_request = <<>>
    /\ response = <<>>
    /\ parsed = NoneVal
    /\ rx = <<>>
    /\ inflight = <<>>
    /\ wire = <<>>
    /\ nWritten = 0
    /\ commanded = NoneVal
    /\ goodZero = 0
    /\ pidWrites = [a \in PidAddrs |-> 0]
    /\ ackLen = NoneVal
    /\ nRead = 0
    /\ user_input = <<>>
    /\ registers = [a \in PidAddrs |-> <<>>]
    /\ staleBytes = 0

\* no codec function has been called on its own
NotCalled == [done |-> FALSE]

Init ==
    /\ SessionInit
    /\ fn = "none"
    /\ arg = <<>>
    /\ out = NotCalled

(* ---------------------------- transport -------------------------------- *)

\* client.socket.write(frame): the frame goes out and the device may answer
SocketWrite(frame) ==
    /\ wire' = frame
    /\ nWritten' = nWritten + 1
    /\ staleBytes' = Len(rx) + Len(inflight)
    /\ \E reply \in DeviceReplies : inflight' = inflight \o reply

\* the receive buffer once k more bytes have arrived
Arrived(k) == rx \o SubSeq(inflight, 1, k)

\* client.socket.read(n) when k more bytes arrive before it returns: the
\* bytes it returns
SocketReadBytes(n, k) == ReadBytes(Arrived(k), n)

\* client.socket.read(n) when k more bytes arrive before it returns: its
\* effect on the line
SocketRead(n, k) ==
    /\ rx' = ReadRest(Arrived(k), n)
    /\ nRead' = nRead + 1
    /\ staleBytes' = 0
    /\ inflight' = SubSeq(inflight, k + 1, Len(inflight))

\* bytes in flight reach the receive buffer during the sleep of line 119.
\* The buffer is looked at only by read and by in_waiting: bytes that arrive
\* at any other moment are those SocketRead lets arrive before it returns
LateArrival ==
    /\ pc = "stream_sleep"
    /\ inflight # <<>>
    /\ rx' = rx \o inflight
    /\ inflight' = <<>>
    /\ UNCHANGED <<pc, connected, closeCount, exitPath, zero_offset_um,
                   position_um, target_um, full_request, response, parsed,
                   wire, nWritten, commanded, goodZero, pidWrites,
                   ackLen, nRead, user_input>>
    /\ UNCHANGED <<registers, staleBytes, call>>

(* ----------------------------- start-up -------------------------------- *)

\* a script that runs the body of the if statement whatever connect returned
AfterConnectIgnoresResult(ok) == "enable_write"

\* lines 78 and 128-129: the branch taken on what client.connect() returned
AfterConnect(ok) == IF ok THEN "enable_write" ELSE "exited"

\* line 78 (and 128-129): client.connect()
Connect ==
    /\ pc = "connect"
    /\ \E ok \in BOOLEAN :
          IF ok
          THEN /\ connected' = TRUE
               /\ pc' = AfterConnect(ok)
               /\ exitPath' = exitPath
          ELSE /\ connected' = FALSE
               /\ pc' = AfterConnect(ok)
               /\ exitPath' = "connect_failed"
    /\ UNCHANGED <<closeCount, zero_offset_um, position_um, target_um,
                   full_request, response, parsed, rx, inflight, wire,
                   nWritten, commanded, goodZero, pidWrites, ackLen, nRead,
                   user_input>>
    /\ UNCHANGED <<registers, staleBytes, call>>

\* lines 51-53: enable_motion writes its frame
EnableWrite ==
    /\ pc = "enable_write"
    /\ SocketWrite(EnableFrame)
    /\ pc' = "enable_read"
    /\ UNCHANGED <<connected, closeCount, exitPath, zero_offset_um,
                   position_um, target_um, full_request, response, parsed,
                   rx, commanded, goodZero, pidWrites, ackLen, nRead, user_input>>
    /\ UNCHANGED <<registers, call>>

\* an enable_motion that gives up unless all 8 bytes were read
AfterEnableNeedsFullAck == IF ackLen' = Some(ACK_LEN) THEN "pid688" ELSE "exited"

\* where the script goes after enable_motion returns
AfterEnable == "pid688"

\* lines 54-56: enable_motion sleeps, reads up to 8 bytes and prints them
EnableRead ==
    /\ pc = "enable_read"
    /\ \E k \in ArrivalCuts(inflight) :
          /\ SocketRead(ACK_LEN, k)
          /\ ackLen' = Some(Len(SocketReadBytes(ACK_LEN, k)))
    /\ pc' = AfterEnable
    /\ UNCHANGED <<connected, closeCount, exitPath, zero_offset_um,
                   position_um, target_um, full_request, response, parsed,
                   wire, nWritten, commanded, goodZero, pidWrites,
                   user_input>>
    /\ UNCHANGED <<registers, call>>

PidPc(addr) ==
    CASE addr = KP_ADDR -> "pid688" [] addr = KI_ADDR -> "pid690"
      [] addr = KD_ADDR -> "pid692"

\* a start-up sequence that leaves out the kd write
AfterPidSkipsKd(addr) ==
    CASE addr = KP_ADDR -> "pid690" [] addr = KI_ADDR -> "prompt"
      [] addr = KD_ADDR -> "prompt"

\* the statement after write_registers(address=addr, ...)
AfterPid(addr) ==
    CASE addr = KP_ADDR -> "pid690" [] addr = KI_ADDR -> "pid692"
      [] addr = KD_ADDR -> "prompt"

\* lines 80-82: client.write_registers(address=addr, values=...); the
\* library's own transaction may or may not drain the receive buffer
WritePid(addr) ==
    /\ pc = PidPc(addr)
    /\ pidWrites' = [pidWrites EXCEPT ![addr] = @ + 1]
    /\ registers' = [registers EXCEPT ![addr] = PidRegs(addr)]
    /\ \E drained \in BOOLEAN : rx' = IF drained THEN <<>> ELSE rx
    /\ pc' = AfterPid(addr)
    /\ UNCHANGED <<connected, closeCount, exitPath, zero_offset_um,
                   position_um, target_um, full_request, response, parsed,
                   inflight, wire, nWritten, commanded, goodZero,
                   ackLen, nRead, user_input>>
    /\ UNCHANGED <<staleBytes, call>>

(* ------------------------ exceptions and exit -------------------------- *)

\* the process ends: its globals and the port's buffers are gone
ProcessExit ==
    /\ pc' = "exited"
    /\ zero_offset_um' = NoneVal
    /\ position_um' = NoneVal
    /\ target_um' = NoneVal
    /\ full_request' = <<>>
    /\ response' = <<>>
    /\ parsed' = NoneVal
    /\ rx' = <<>>
    /\ inflight' = <<>>

\* lines 126-127: the finally clause, client.close(), then the process ends
Finally ==
    /\ connected' = FALSE
    /\ closeCount' = closeCount + 1
    /\ ProcessExit

\* an exception raised at position p leaves the script: through the finally
\* clause when p is inside the try statement (lines 85-127), directly
\* otherwise (lines 79-82)
Unwind(p) ==
    IF InTry(p) THEN Finally
    ELSE ProcessExit /\ UNCHANGED <<connected, closeCount>>

(* --------------------------- operator loop ----------------------------- *)

\* a target that forgets the zero offset
AbsoluteTargetNoOffset(zero, relative) == relative

\* line 111: target_um = zero_offset_um + position_um
AbsoluteTarget(zero, relative) == zero + relative

\* the target the zero branch probes with, line 95
ProbeTarget == 0

\* the target a move frame carries, as the device decodes it
FrameTarget(frame) == FromBytesSigned4(SubSeq(frame, 4, 7))

\* lines 87-90: the operator enters 'q': break, then the finally clause
Quit ==
    /\ pc = "prompt"
    /\ \E raw \in Inputs :
          StripLower(raw) = <<"q">> /\ user_input' = StripLower(raw)
    /\ Finally
    /\ exitPath' = "quit"
    /\ UNCHANGED <<wire, nWritten, commanded, goodZero, pidWrites, ackLen,
                   nRead>>
    /\ UNCHANGED <<registers, staleBytes, call>>

\* lines 92-96: the operator enters 'z': the probe frame is written
ZeroWrite ==
    /\ pc = "prompt"
    /\ nWritten < MaxWrites
    /\ \E raw \in Inputs :
          StripLower(raw) = <<"z">> /\ user_input' = StripLower(raw)
    /\ SocketWrite(build_position_command(ProbeTarget))
    /\ commanded' = Some(FrameTarget(wire'))
    /\ pc' = "zero_read"
    /\ UNCHANGED <<connected, closeCount, exitPath, zero_offset_um,
                   position_um, target_um, full_request, response, parsed,
                   rx, goodZero, pidWrites, ackLen, nRead>>
    /\ UNCHANGED <<registers, call>>

\* the value line 99 stores in zero_offset_um for a 19-byte response
ZeroResult(resp) == parse_motor_response_line(resp)

\* a zero branch that falls through to the streaming loop
AfterZeroFallsThrough == "stream_write"

\* line 103: continue, back to the prompt of line 87
AfterZero == "prompt"

\* lines 97-103: the zero branch reads, stores the zero and continues
ZeroRead ==
    /\ pc = "zero_read"
    /\ \E k \in ArrivalCuts(inflight) :
          /\ SocketRead(RESPONSE_LEN, k)
          /\ response' = SocketReadBytes(RESPONSE_LEN, k)
    /\ IF Len(response') = RESPONSE_LEN
       THEN /\ zero_offset_um' = ZeroResult(response')
            /\ parsed' = parse_motor_response_line(response')
            /\ goodZero' = IF IsNone(parsed') THEN goodZero ELSE Get(parsed')
       ELSE /\ parsed' = NoneVal
            /\ UNCHANGED <<zero_offset_um, goodZero>>
    /\ pc' = AfterZero
    /\ UNCHANGED <<connected, closeCount, exitPath, position_um, target_um,
                   full_request, wire, nWritten, commanded, pidWrites,
                   ackLen, user_input>>
    /\ UNCHANGED <<registers, call>>

\* the inputs that are neither 'q' nor 'z'
IsNumberInput(raw) == StripLower(raw) \notin {<<"q">>, <<"z">>}

\* lines 105-109: float() or int() raises ValueError: message, continue
BadInput ==
    /\ pc = "prompt"
    /\ \E raw \in Inputs :
          /\ IsNumberInput(raw)
          /\ IntOfFloat(StripLower(raw)).raises = "ValueError"
          /\ user_input' = StripLower(raw)
    /\ UNCHANGED <<pc, connected, closeCount, exitPath, zero_offset_um,
                   position_um, target_um, full_request, response, parsed,
                   rx, inflight, wire, nWritten, commanded, goodZero,
                   pidWrites, ackLen, nRead>>
    /\ UNCHANGED <<registers, staleBytes, call>>

\* the input is a number
NumberInputs == {raw \in Inputs :
                   IsNumberInput(raw) /\ IntOfFloat(StripLower(raw)).raises = "nothing"}

\* lines 105-113: a number, and the target and its frame can be built
MoveTo ==
    /\ pc = "prompt"
    /\ nWritten < MaxWrites
    /\ ~IsNone(zero_offset_um)
    /\ \E raw \in NumberInputs :
          /\ user_input' = StripLower(raw)
          /\ position_um' = Some(IntOfFloat(StripLower(raw)).value)
          /\ FitsInt32(Get(zero_offset_um), Get(position_um'))
    /\ target_um' = Some(AbsoluteTarget(Get(zero_offset_um), Get(position_um')))
    /\ full_request' = build_position_command(Get(target_um'))
    /\ pc' = "stream_write"
    /\ UNCHANGED <<connected, closeCount, exitPath, zero_offset_um, response,
                   parsed, rx, inflight, wire, nWritten, commanded,
                   goodZero, pidWrites, ackLen, nRead>>
    /\ UNCHANGED <<registers, staleBytes, call>>

\* lines 105-112: a number, but line 111 adds it to a None zero_offset_um
\* (TypeError), or line 18 cannot put the target in 4 bytes (OverflowError),
\* or the input is an infinity (OverflowError in int()): the exception
\* leaves the loop through the finally clause
MoveRaises ==
    /\ pc = "prompt"
    /\ \E raw \in Inputs :
          /\ IsNumberInput(raw)
          /\ user_input' = StripLower(raw)
          /\ \/ IntOfFloat(user_input').raises = "OverflowError"
             \/ /\ IntOfFloat(user_input').raises = "nothing"
                /\ IsNone(zero_offset_um)
             \/ /\ IntOfFloat(user_input').raises = "nothing"
                /\ ~IsNone(zero_offset_um)
                /\ ~FitsInt32(Get(zero_offset_um), IntOfFloat(user_input').value)
    /\ Finally
    /\ exitPath' = "error"
    /\ UNCHANGED <<wire, nWritten, commanded, goodZero, pidWrites, ackLen,
                   nRead>>
    /\ UNCHANGED <<registers, staleBytes, call>>

\* a streaming loop that sleeps right after its write
AfterStreamWriteSkipsRead == "stream_sleep"

\* line 117 is the statement after line 116
AfterStreamWrite == "stream_read"

\* line 116: the streaming loop writes the move frame
StreamWrite ==
    /\ pc = "stream_write"
    /\ nWritten < MaxWrites
    /\ SocketWrite(full_request)
    /\ commanded' = Some(FrameTarget(wire'))
    /\ pc' = AfterStreamWrite
    /\ UNCHANGED <<connected, closeCount, exitPath, zero_offset_um,
                   position_um, target_um, full_request, response, parsed,
                   rx, goodZero, pidWrites, ackLen, nRead, user_input>>
    /\ UNCHANGED <<registers, call>>

\* lines 117-118: read(19) and parse_motor_response_line
StreamRead ==
    /\ pc = "stream_read"
    /\ \E k \in ArrivalCuts(inflight) :
          /\ SocketRead(RESPONSE_LEN, k)
          /\ response' = SocketReadBytes(RESPONSE_LEN, k)
    /\ parsed' = parse_motor_response_line(response')
    /\ pc' = "stream_sleep"
    /\ UNCHANGED <<connected, closeCount, exitPath, zero_offset_um,
                   position_um, target_um, full_request, wire, nWritten,
                   commanded, goodZero, pidWrites, ackLen, user_input>>
    /\ UNCHANGED <<registers, call>>

\* line 121: client.socket.in_waiting > 0
LoopBreaks(buf) == Len(buf) > 0

\* lines 119-122: after the sleep, break when bytes are waiting
StreamCheck ==
    /\ pc = "stream_sleep"
    /\ pc' = IF LoopBreaks(rx) THEN "prompt" ELSE "stream_write"
    /\ UNCHANGED <<connected, closeCount, exitPath, zero_offset_um,
                   position_um, target_um, full_request, response, parsed,
                   rx, inflight, wire, nWritten, commanded, goodZero,
                   pidWrites, ackLen, nRead, user_input>>
    /\ UNCHANGED <<registers, staleBytes, call>>

(* ----------------------------- interrupts ------------------------------ *)

\* lines 124-125: KeyboardInterrupt; the except clause catches it only
\* inside the try statement
Interrupt ==
    /\ pc \in StartupPcs \cup LoopPcs
    /\ Unwind(pc)
    /\ exitPath' = IF pc \in StartupPcs THEN "startup_interrupt" ELSE "interrupt"
    /\ UNCHANGED <<wire, nWritten, commanded, goodZero, pidWrites, ackLen,
                   nRead, user_input>>
    /\ UNCHANGED <<registers, staleBytes, call>>

\* a serial write, read or register write raises (or input() meets EOF)
Fault ==
    /\ pc \in StartupPcs \cup LoopPcs
    /\ Unwind(pc)
    /\ exitPath' = IF pc \in StartupPcs THEN "startup_error" ELSE "error"
    /\ UNCHANGED <<wire, nWritten, commanded, goodZero, pidWrites, ackLen,
                   nRead, user_input>>
    /\ UNCHANGED <<registers, staleBytes, call>>

Next ==
    \/ Connect
    \/ EnableWrite
    \/ EnableRead
    \/ \E a \in PidAddrs : WritePid(a)
    \/ Quit
    \/ ZeroWrite
    \/ ZeroRead
    \/ BadInput
    \/ MoveTo
    \/ MoveRaises
    \/ StreamWrite
    \/ StreamRead
    \/ StreamCheck
    \/ LateArrival
    \/ Interrupt
    \/ Fault

Spec == Init /\ [][Next]_vars

(* ------------------ the codec functions on their own ------------------- *)

\* The functions of lines 5-41 are also applied outside a session, each to
\* an argument drawn from a bounded set: the initial state holds the
\* function and its argument, and one step calls it.

\* length up to which every byte string over CrcAlphabet is an argument
MaxCrcLen == 3

CrcAlphabet == {0, 1, 100, 255}

RECURSIVE ByteStrings(_)
\* the byte strings over CrcAlphabet of length n
ByteStrings(n) ==
    IF n = 0 THEN {<<>>}
    ELSE {Append(b, x) : b \in ByteStrings(n - 1), x \in CrcAlphabet}

\* arguments of modbus_crc: the short byte strings, the requests the two
\* scripts build, and the ASCII digits 1 to 9
CrcArgs ==
    UNION {ByteStrings(n) : n \in 0..MaxCrcLen}
        \cup {<<1, 100, 17>>, <<1, 100, 16, 0, 0, 0, 1>>,
              <<1, 100, 30, 0, 0, 2, 88>>,
              <<49, 50, 51, 52, 53, 54, 55, 56, 57>>}

\* arguments of build_position_command: signed 32-bit positions
BuildArgs ==
    {0, 1, -1, 127, 128, 255, 256, -256, 600, 10000, -10000, 65535, 65536,
     -65536, -2000000, 2000000, 16777215, 16777216, -16777216,
     INT32_MAX - 1, INT32_MAX, -INT32_MAX, (-INT32_MAX) - 1}

\* int.to_bytes(2, byteorder='big') as the device encodes a 16-bit field
ToBytesBE2(v) == <<v \div 256, v % 256>>

\* the telemetry values the device may report
Telemetries ==
    [pos     : {10000, -2000000, INT32_MAX, (-INT32_MAX) - 1},
     force   : {0, -1500, 70000},
     power   : {0, 513},
     temp    : {25, 200},
     voltage : {24000},
     errors  : {0, 32769}]

\* bytes 2..16 of a response that reports t
FieldBytes(t) ==
    ToBytesSigned4(t.pos) \o ToBytesSigned4(t.force) \o ToBytesBE2(t.power)
        \o <<t.temp>> \o ToBytesBE2(t.voltage) \o ToBytesBE2(t.errors)

\* a 19-byte frame from address addr with function code fc that reports t,
\* closed by its CRC or by two zero bytes
TelemetryFrame(addr, fc, t, crcOk) ==
    LET body == <<addr, fc>> \o FieldBytes(t)
    IN  body \o (IF crcOk THEN modbus_crc(body) ELSE <<0, 0>>)

Addresses == {1, 2}

\* function codes of a received frame: the expected one, its exception form
\* and a standard Modbus read
FrameCodes == {FUNCTION_CODE, 228, 3}

Frames ==
    {TelemetryFrame(a, fc, t, c) :
        a \in Addresses, fc \in FrameCodes, t \in Telemetries, c \in BOOLEAN}

\* lengths other than 19 a read may return or a caller may pass
OtherLengths == {0, 1, 18, 20, 38}

\* byte strings of those lengths, cut from well-formed frames
Misframed ==
    {SubSeq(f \o f, 1, n) :
        f \in {TelemetryFrame(1, FUNCTION_CODE, t, TRUE) : t \in Telemetries},
        n \in OtherLengths}

\* arguments of parse_motor_response_line: None or a bytes object
ParseArgs == {NoneVal} \cup {Some(b) : b \in Frames \cup Misframed}

CodecInit ==
    /\ SessionInit
    /\ out = NotCalled
    /\ \/ fn = "modbus_crc" /\ arg \in CrcArgs
       \/ fn = "build_position_command" /\ arg \in BuildArgs
       \/ fn = "parse_motor_response_line" /\ arg \in ParseArgs
       \/ fn = "build_request" /\ arg = <<>>
       \/ fn = "modbus_crc by steps" /\ arg \in CrcArgs

\* modbus_crc(arg), by the copy of actuator.py and by the copy of test.py
CallCrc ==
    /\ fn = "modbus_crc" /\ ~out.done
    /\ out' = [done |-> TRUE, returns |-> modbus_crc(arg),
               test_returns |-> test_modbus_crc(arg)]
    /\ UNCHANGED <<fn, arg, session>>

\* build_position_command(arg)
CallBuild ==
    /\ fn = "build_position_command" /\ ~out.done
    /\ out' = [done |-> TRUE, returns |-> build_position_command(arg)]
    /\ UNCHANGED <<fn, arg, session>>

\* parse_motor_response_line(arg)
CallParse ==
    /\ fn = "parse_motor_response_line" /\ ~out.done
    /\ out' = [done |-> TRUE] @@ ParseCall(arg)
    /\ UNCHANGED <<fn, arg, session>>

\* src/test.py: build_request()
CallBuildRequest ==
    /\ fn = "build_request" /\ ~out.done
    /\ out' = [done |-> TRUE, returns |-> test_build_request]
    /\ UNCHANGED <<fn, arg, session>>

\* modbus_crc(arg) is also followed statement by statement: out holds the
\* accumulator crc, the index i of the next byte of data and the number n of
\* shift rounds left for the current byte
InCrcLoop == fn = "modbus_crc by steps" /\ "n" \in DOMAIN out

\* line 6: crc = 0xFFFF
CrcStart ==
    /\ fn = "modbus_crc by steps" /\ out = NotCalled
    /\ out' = [done |-> FALSE, crc |-> 65535, i |-> 1, n |-> 0]
    /\ UNCHANGED <<fn, arg, session>>

\* lines 7-8: the next byte is taken and crc ^= pos
CrcXor ==
    /\ InCrcLoop /\ out.n = 0 /\ out.i <= Len(arg)
    /\ out' = [out EXCEPT !.crc = Xor(@, arg[out.i]), !.n = 8]
    /\ UNCHANGED <<fn, arg, session>>

\* lines 9-14: one shift round; after the eighth the byte is done
CrcShift ==
    /\ InCrcLoop /\ out.n > 0
    /\ out' = [out EXCEPT !.crc = CrcRound(@), !.n = @ - 1,
                          !.i = IF out.n = 1 THEN @ + 1 ELSE @]
    /\ UNCHANGED <<fn, arg, session>>

\* line 15: crc.to_bytes(2, byteorder='little'), which raises OverflowError
\* when crc does not fit in 2 bytes
CrcReturn ==
    /\ InCrcLoop /\ out.n = 0 /\ out.i > Len(arg)
    /\ out' = [done    |-> TRUE,
               crc     |-> out.crc,
               raises  |-> IF out.crc \in 0..65535 THEN "nothing"
                           ELSE "OverflowError",
               returns |-> IF out.crc \in 0..65535 THEN ToBytesLE2(out.crc)
                           ELSE <<>>]
    /\ UNCHANGED <<fn, arg, session>>

CodecNext ==
    \/ CallCrc
    \/ CallBuild
    \/ CallParse
    \/ CallBuildRequest
    \/ CrcStart
    \/ CrcXor
    \/ CrcShift
    \/ CrcReturn

CodecSpec == CodecInit /\ [][CodecNext]_vars

(* ------------------------------ claims --------------------------------- *)

Running == pc # "exited"

\* C1: zero_offset changes only in a zero() whose response decodes, and then
\* becomes the decoded position; a zero() whose 19-byte response has a wrong
\* function code leaves it as it was.  goodZero is that value: 0, then the
\* position of the last response a zero() decoded.
C1_ZeroOffsetIsLastDecodedZero ==
    Running => zero_offset_um = Some(goodZero)

\* C2: a read that times out (fewer than 19 bytes) produces no telemetry and
\* leaves zero_offset, the absolute target and the state of the control loop
\* (Idle or Streaming) as they were, also when the late bytes arrive
\* afterwards: after a timed-out read the streaming loop goes on to its next
\* write unless it is interrupted.
C2_TimeoutChangesNothing ==
    /\ [][(pc \in {"zero_read", "stream_read"} /\ pc' \notin {pc, "exited"}
             /\ Len(response') < RESPONSE_LEN)
          => (IsNone(parsed') /\ zero_offset_um' = zero_offset_um
                /\ target_um' = target_um)]_vars
    /\ [][(pc = "stream_sleep" /\ Len(response) < RESPONSE_LEN
             /\ pc' \notin {"stream_sleep", "exited"})
          => (pc' = "stream_write" /\ zero_offset_um' = zero_offset_um
                /\ target_um' = target_um)]_vars

\* C3: the streaming loop is left only by an operator interrupt (or by an
\* exception that ends the session), never on its own.
C3_StreamingLeftOnlyByInterrupt ==
    [][(pc \in StreamingPcs /\ pc' \notin StreamingPcs)
       => (pc' = "exited" /\ exitPath' \in {"interrupt", "error"})]_vars

\* C4: an operator interrupt during a streaming move takes the controller
\* back to Idle (the prompt) with the session still connected.
C4_CancelReturnsToIdle ==
    [][(pc \in StreamingPcs /\ exitPath' = "interrupt")
       => (pc' = "prompt" /\ connected')]_vars

\* C5: after a successful connect the transport is released exactly once on
\* every exit path: the normal quit, an interrupt or an error in the operator
\* loop, and a fatal error raised by enable_motion or by a register write.
C5_ReleasedExactlyOnce ==
    (pc = "exited" /\ exitPath \in {"quit", "interrupt", "error", "startup_error"})
        => (closeCount = 1 /\ ~connected)

\* C6: when the session ends by 'q' or by an operator interrupt at the prompt
\* or while streaming, the transport has been released when the process
\* exits, and no frame is written once it has been released.
C6_ReleasedBeforeExit ==
    /\ []((pc = "exited" /\ exitPath \in {"quit", "interrupt"})
            => (closeCount = 1 /\ ~connected))
    /\ [][closeCount > 0 => (nWritten' = nWritten /\ wire' = wire)]_vars

\* a session that was interrupted while streaming has exited with the
\* transport released
C6_Witness ==
    /\ pc = "exited" /\ exitPath = "interrupt"
    /\ closeCount = 1 /\ nWritten >= 2

\* C7: every move frame the streaming loop writes is 01 64 1E followed by the
\* big-endian encoding of (position decoded by the last successful zero, 0 if
\* none) + (the relative target the operator entered).
C7_MoveFrameTargetsZeroPlusRelative ==
    pc = "stream_read"
        => (SubSeq(wire, 1, 3) = <<1, 100, 30>>
              /\ FrameTarget(wire) = goodZero + Get(position_um))

\* zero() decoded 500, the operator entered 100, the frame written targets 600
C7_Witness ==
    /\ pc = "stream_read"
    /\ goodZero = 500 /\ position_um = Some(100)
    /\ FrameTarget(wire) = 600

\* C8: in the streaming loop an iteration whose read fails (timeout or frame
\* error) is followed, unless the operator interrupts, by another iteration
\* for the same absolute target with zero_offset unchanged.
C8_FailedIterationIsRetried ==
    [][(pc = "stream_sleep" /\ IsNone(parsed)
          /\ pc' \notin {"stream_sleep", "exited"})
       => (pc' = "stream_write" /\ full_request' = full_request
             /\ target_um' = target_um /\ zero_offset_um' = zero_offset_um)]_vars

\* C9: the probe frame of zero() targets the position the actuator is
\* already commanded to hold, so writing it does not change that position.
C9_ProbeKeepsCommandedPosition ==
    [][(pc = "prompt" /\ pc' = "zero_read" /\ ~IsNone(commanded))
       => commanded' = commanded]_vars

\* C10: each of the registers 688, 690 and 692 is written at most once, only
\* after enable_motion has read its acknowledgment, and all three have been
\* written exactly once whenever the operator loop runs or a probe or move
\* frame has been written.
C10_PidOnceAfterEnableBeforeMoves ==
    /\ \A a \in PidAddrs : pidWrites[a] <= 1
    /\ (\E a \in PidAddrs : pidWrites[a] > 0) => ~IsNone(ackLen)
    /\ (pc \in LoopPcs \/ ~IsNone(commanded)) => \A a \in PidAddrs : pidWrites[a] = 1

\* a move frame has been written and the three registers were written once
C10_Witness ==
    /\ pc = "stream_read"
    /\ \A a \in PidAddrs : pidWrites[a] = 1

\* C11: at most one command is in flight: every frame written with
\* socket.write (the enable frame, a probe frame, a move frame) is followed
\* by a socket.read that returns before the next frame is written, so the
\* reads never fall more than one behind the writes and never run ahead.
C11_OneCommandInFlight ==
    nRead <= nWritten /\ nWritten <= nRead + 1

\* a third frame has been written after the two before it were each read
C11_Witness ==
    /\ pc = "stream_read"
    /\ nWritten = 3 /\ nRead = 2

\* C12: cancellation is cooperative: an operator interrupt takes effect only
\* between iterations of the streaming loop, so when it takes effect every
\* move frame that was written has had its read.
C12_CancelOnlyBetweenIterations ==
    [][(pc \in StreamingPcs /\ exitPath' = "interrupt") => nRead = nWritten]_vars

\* a signed decimal: an optional sign, then digits with at most one point
IsSignedDecimal(s) ==
    LET body == IF s # <<>> /\ Head(s) \in {"+", "-"} THEN Tail(s) ELSE s
        dots == {i \in 1..Len(body) : body[i] = "."}
    IN  /\ Cardinality(dots) <= 1
        /\ \E i \in 1..Len(body) : IsDigit(body[i])
        /\ \A i \in 1..Len(body) : IsDigit(body[i]) \/ body[i] = "."

\* C13: an operator input that is not a signed decimal, 'z' or 'q' is
\* rejected with a re-prompt and has no side effect: no frame is written,
\* zero_offset is unchanged and the session stays at the prompt, connected.
C13_BadInputIsRejected ==
    [][(pc = "prompt" /\ user_input' # user_input
          /\ user_input' \notin {<<"q">>, <<"z">>}
          /\ ~IsSignedDecimal(user_input'))
       => (pc' = "prompt" /\ connected' /\ nWritten' = nWritten
             /\ zero_offset_um' = zero_offset_um)]_vars

\* a call of parse_motor_response_line has returned or raised
Parsed == fn = "parse_motor_response_line" /\ out.done

\* the argument of that call is a bytes object of 19 bytes
Parsed19 == Parsed /\ ~IsNone(arg) /\ Len(Get(arg)) = RESPONSE_LEN

\* C14: parse_motor_response_line rejects every argument that is None or
\* whose length is not 19, empty included: it raises nothing, returns None
\* (no telemetry) and reports the length.
C14_BadLengthIsRejected ==
    (Parsed /\ ~Parsed19)
        => /\ out.raises = "nothing"
           /\ out.returns = NoneVal
           /\ out.prints.line = "Invalid response length or no response received."
           /\ out.prints.shows = <<>>

\* a 20-byte argument that starts with a well-formed frame was rejected
C14_Witness ==
    /\ Parsed /\ ~IsNone(arg) /\ Len(Get(arg)) = 20
    /\ Get(arg)[2] = FUNCTION_CODE
    /\ out.returns = NoneVal

\* C15: a 19-byte argument whose byte 1 is not 0x64 is rejected with an
\* error result of its own: the call raises nothing, and what it returns is
\* neither a position nor what a call returns for a wrong length.
C15_BadFunctionIsTellable ==
    (Parsed19 /\ Get(arg)[2] # FUNCTION_CODE)
        => /\ out.raises = "nothing"
           /\ Len(out.returns) # 1
           /\ out.returns # ParseCall(Some(<<>>)).returns
           /\ out.returns # ParseCall(NoneVal).returns

\* C16: for a 19-byte argument whose byte 1 is 0x64 the call decodes the
\* position from bytes 2..5 and the force from bytes 6..9 as signed
\* big-endian 32-bit integers (00 00 27 10 is 10000), the power from bytes
\* 10..11, the temperature from byte 12, the voltage from bytes 13..14 and
\* the error bitmap from bytes 15..16 as unsigned big-endian integers: a
\* frame whose bytes 2..16 encode the values t gives back exactly t, and
\* the position is what the call returns.
C16_FieldsDecodedAtTheirOffsets ==
    (Parsed19 /\ Get(arg)[2] = FUNCTION_CODE)
        => /\ out.prints.line = "pos"
           /\ \A t \in Telemetries :
                 SubSeq(Get(arg), 3, 17) = FieldBytes(t)
                    => (out.returns = Some(t.pos) /\ out.prints.shows = <<t>>)
           /\ SubSeq(Get(arg), 3, 6) = <<0, 0, 39, 16>>
                 => out.returns = Some(10000)

\* a frame that reports a negative position, a negative force and the top
\* error bit has been decoded
C16_Witness ==
    /\ Parsed19 /\ Get(arg)[2] = FUNCTION_CODE
    /\ SubSeq(Get(arg), 3, 10) = <<255, 225, 123, 128, 255, 255, 250, 36>>
    /\ out.returns = Some(-2000000)
    /\ out.prints.shows[1].force = -1500
    /\ out.prints.shows[1].power = 513
    /\ out.prints.shows[1].temp = 200
    /\ out.prints.shows[1].voltage = 24000
    /\ out.prints.shows[1].errors = 32769

\* the frame with the bytes 1..16 of b, sent from address 1 and closed by
\* its CRC
Wellformed(b) ==
    LET body == <<1>> \o SubSeq(b, 2, 17) IN body \o modbus_crc(body)

\* C17: on receipt only the length and the function code are validated: a
\* 19-byte argument whose byte 1 is 0x64 is decoded whatever its address
\* byte and its CRC bytes are, to the position the same frame gives when it
\* comes from address 1 with a matching CRC.
C17_AddressAndCrcNotChecked ==
    (Parsed19 /\ Get(arg)[2] = FUNCTION_CODE)
        => /\ out.raises = "nothing"
           /\ Len(out.returns) = 1
           /\ out.returns = parse_motor_response_line(Wellformed(Get(arg)))

\* a frame from address 2 whose CRC bytes do not match has been decoded
C17_Witness ==
    /\ Parsed19 /\ Get(arg)[2] = FUNCTION_CODE
    /\ Get(arg)[1] = 2
    /\ SubSeq(Get(arg), 18, 19) # modbus_crc(SubSeq(Get(arg), 1, 17))
    /\ out.returns = Some(10000)

\* a call of build_position_command has returned
Built == fn = "build_position_command" /\ out.done

\* C18: for every signed 32-bit position build_position_command returns a
\* frame of 9 bytes: 01 64 1E, four payload bytes that read back as the
\* position when they are decoded as a signed big-endian integer, and the
\* CRC of the first seven bytes, low byte first.
C18_MoveFrameRoundTrips ==
    Built
        => /\ Len(out.returns) = 9
           /\ \A i \in 1..9 : out.returns[i] \in 0..255
           /\ SubSeq(out.returns, 1, 3) = <<1, 100, 30>>
           /\ FromBytesSigned4(SubSeq(out.returns, 4, 7)) = arg
           /\ SubSeq(out.returns, 8, 9) = modbus_crc(SubSeq(out.returns, 1, 7))

\* the frame for -2000000 carries FF E1 7B 80
C18_Witness ==
    /\ Built /\ arg = -2000000
    /\ SubSeq(out.returns, 4, 7) = <<255, 225, 123, 128>>

\* the frame for the smallest signed 32-bit position carries 80 00 00 00
C18_WitnessMin ==
    /\ Built /\ arg = (-INT32_MAX) - 1
    /\ SubSeq(out.returns, 4, 7) = <<128, 0, 0, 0>>

RECURSIVE RefShift(_, _, _)
\* the reference CRC-16 of Modbus as a shift register fed one message bit
\* at a time, low bit of each byte first: the register moves one place to
\* the right and 0xA001 is added (modulo 2) when the bit shifted out differs
\* from the message bit
RefShift(reg, byte, n) ==
    IF n = 0 THEN reg
    ELSE LET next == IF (reg + byte) % 2 = 1
                     THEN Xor(reg \div 2, 40961) ELSE reg \div 2
         IN  IF next >= 0 THEN RefShift(next, byte \div 2, n - 1) ELSE next

RECURSIVE RefCrc(_, _)
\* the reference register after the bytes of data, started from reg
RefCrc(reg, data) ==
    IF data = <<>> THEN reg
    ELSE LET next == RefShift(reg, Head(data), 8)
         IN  IF next >= 0 THEN RefCrc(next, Tail(data)) ELSE next

\* a call of modbus_crc has returned
CrcDone == fn = "modbus_crc" /\ out.done

\* C19: for every byte sequence modbus_crc returns the reference Modbus
\* CRC-16 (register started at 0xFFFF, reflected polynomial 0xA001, 8 rounds
\* a byte), low byte first; the copy in test.py returns the same bytes; the
\* CRC of 01 64 11 is CA CC, which closes the request test.py builds, and
\* the CRC of the ASCII digits 1 to 9 is the catalogued check value 0x4B37.
C19_CrcIsModbusCrc16 ==
    /\ CrcDone
          => /\ out.returns = <<RefCrc(65535, arg) % 256,
                                RefCrc(65535, arg) \div 256>>
             /\ out.test_returns = out.returns
             /\ arg = <<1, 100, 17>> => out.returns = <<202, 204>>
             /\ arg = <<49, 50, 51, 52, 53, 54, 55, 56, 57>>
                   => out.returns = <<55, 75>>
    /\ (fn = "build_request" /\ out.done)
          => out.returns = <<1, 100, 17, 202, 204>>

\* both copies have returned CA CC for 01 64 11
C19_Witness ==
    /\ CrcDone /\ arg = <<1, 100, 17>>
    /\ out.returns = <<202, 204>> /\ out.test_returns = <<202, 204>>

\* C20: enable_motion is lenient: whatever its read of the acknowledgment
\* returns, from no byte to 8 bytes of any content, the session does not
\* fail: it stays connected and its next statement is the write of
\* register 688.
C20_EnableIsLenient ==
    [][(pc = "enable_read" /\ nRead' # nRead)
       => (/\ pc' = PidPc(KP_ADDR)
           /\ connected' /\ closeCount' = 0 /\ exitPath' = "none"
           /\ \E n \in 0..ACK_LEN : ackLen' = Some(n))]_vars

\* the acknowledgment read returned no byte, and the three registers were
\* written afterwards
C20_Witness ==
    /\ ackLen = Some(0)
    /\ pc = "prompt"
    /\ \A a \in PidAddrs : pidWrites[a] = 1

\* the acknowledgment read returned only the first bytes of the reply,
\* and register 688 was written
C20_WitnessPartial ==
    /\ ackLen = Some(PartialLen)
    /\ pidWrites[KP_ADDR] = 1

\* C21: when client.connect() fails the session ends at once: no frame
\* (enable, probe or move) is written, no PID register is written, nothing
\* is read, the operator is never prompted, and nothing happens afterwards.
C21_ConnectFailureWritesNothing ==
    /\ [](exitPath = "connect_failed"
            => /\ pc = "exited" /\ ~connected /\ closeCount = 0
               /\ nWritten = 0 /\ wire = <<>> /\ IsNone(commanded)
               /\ \A a \in PidAddrs : pidWrites[a] = 0
               /\ nRead = 0 /\ IsNone(ackLen)
               /\ user_input = <<>>)
    /\ [][(pc = "connect" /\ ~connected') => exitPath' = "connect_failed"]_vars

\* the session has ended on a failed connect
C21_Witness ==
    pc = "exited" /\ exitPath = "connect_failed" /\ nWritten = 0

\* floats and their 4-byte little-endian IEEE-754 patterns: 500.0, 0.0,
\* -0.0, 0.5, 1.0, -2.0, 16777215.0, 1 + 2^-23, the single nearest to pi,
\* 2^-126, and the singles nearest to 0.001 and to 0.01
FloatPatterns ==
    { [value |-> Float(FALSE, 125, 2),         bytes |-> <<0, 0, 250, 67>>],
      [value |-> Float(FALSE, 0, 0),           bytes |-> <<0, 0, 0, 0>>],
      [value |-> Float(TRUE, 0, 0),            bytes |-> <<0, 0, 0, 128>>],
      [value |-> Float(FALSE, 1, -1),          bytes |-> <<0, 0, 0, 63>>],
      [value |-> Float(FALSE, 1, 0),           bytes |-> <<0, 0, 128, 63>>],
      [value |-> Float(TRUE, 1, 1),            bytes |-> <<0, 0, 0, 192>>],
      [value |-> Float(FALSE, 16777215, 0),    bytes |-> <<255, 255, 127, 75>>],
      [value |-> Float(FALSE, 8388609, -23),   bytes |-> <<1, 0, 128, 63>>],
      [value |-> Float(FALSE, 13176795, -22),  bytes |-> <<219, 15, 73, 64>>],
      [value |-> Float(FALSE, 1, -126),        bytes |-> <<0, 0, 128, 0>>],
      [value |-> Float(FALSE, 8589935, -33),   bytes |-> <<111, 18, 131, 58>>],
      [value |-> Float(FALSE, 10737418, -30),  bytes |-> <<10, 215, 35, 60>>] }

\* C22: float_to_registers maps the little-endian IEEE-754 pattern
\* b0 b1 b2 b3 of a gain to the registers (b0*256 + b1, b2*256 + b3), in
\* that order, and the pairs for kp, ki and kd are what is written to
\* addresses 688, 690 and 692: (0, 0xFA43) for 500.0 and (0, 0) for 0.0.
C22_GainRegisters ==
    /\ \A p \in FloatPatterns :
          float_to_registers(p.value)
             = <<p.bytes[1] * 256 + p.bytes[2], p.bytes[3] * 256 + p.bytes[4]>>
    /\ \A a \in PidAddrs :
          /\ pidWrites[a] = 0 <=> registers[a] = <<>>
          /\ registers[a] # <<>> => registers[a] = PidRegs(a)
    /\ registers[KP_ADDR] \in {<<>>, <<0, 64067>>}
    /\ registers[KI_ADDR] \in {<<>>, <<0, 0>>}
    /\ registers[KD_ADDR] \in {<<>>, <<0, 0>>}

\* the three register pairs have been written
C22_Witness ==
    /\ pc = "prompt"
    /\ registers[KP_ADDR] = <<0, 64067>>
    /\ registers[KI_ADDR] = <<0, 0>>
    /\ registers[KD_ADDR] = <<0, 0>>

\* C23: the zero branch writes exactly one frame, the probe, and performs
\* exactly one read; then, whether the read returned a full response or
\* not, the script is back at the prompt, and it does not enter the
\* streaming loop (unless an exception ends the session during the branch).
C23_ZeroIsOneWriteOneRead ==
    /\ [][(pc = "prompt" /\ pc' = "zero_read")
          => (/\ nWritten' = nWritten + 1 /\ nRead' = nRead
              /\ wire' = build_position_command(ProbeTarget))]_vars
    /\ [][(pc = "zero_read" /\ pc' # "zero_read")
          => \/ pc' = "exited"
             \/ /\ pc' = "prompt"
                /\ nRead' = nRead + 1 /\ nWritten' = nWritten
                /\ wire' = wire]_vars
    /\ [](pc = "zero_read" => (user_input = <<"z">> /\ nWritten = nRead + 1))

\* a zero whose read returned fewer than 19 bytes is back at the prompt
C23_Witness ==
    /\ pc = "prompt" /\ user_input = <<"z">>
    /\ nWritten = 2 /\ nRead = 2
    /\ Len(response) < RESPONSE_LEN

\* C24: every response that is decoded (and, in the zero branch, stored as
\* zero_offset) consists of bytes the device sent in reply to the frame
\* written immediately before that read: when a read returns bytes that a
\* position is decoded from, no byte was already on its way to the host
\* at the moment that frame was written.
C24_DecodedBytesAnswerLastFrame ==
    [][(pc \in {"zero_read", "stream_read"} /\ nRead' = nRead + 1
          /\ ~IsNone(parsed'))
       => staleBytes = 0]_vars

\* C25: for every numeric operator input the absolute target
\* zero_offset + relative lies within the signed 32-bit range, so the move
\* frame is built and the input does not end the session (stated here for
\* a zero_offset that is an integer).
C25_NumericInputNeverEndsSession ==
    [][(pc = "prompt" /\ user_input' # user_input
          /\ IsSignedDecimal(user_input') /\ ~IsNone(zero_offset_um))
       => (/\ pc' = "stream_write"
           /\ FitsInt32(Get(zero_offset_um), Get(position_um'))
           /\ full_request' = build_position_command(Get(target_um')))]_vars

\* C26: while modbus_crc processes bytes 0..255 the accumulator stays
\* within 0..0xFFFF after every XOR and every shift round, so the conversion
\* to 2 bytes raises nothing and returns two bytes (the ones modbus_crc
\* returns when it is taken in one step).
C26_AccumulatorStaysIn16Bits ==
    (fn = "modbus_crc by steps" /\ "crc" \in DOMAIN out)
        => /\ out.crc \in 0..65535
           /\ out.done
                 => /\ out.raises = "nothing"
                    /\ Len(out.returns) = 2
                    /\ \A k \in 1..2 : out.returns[k] \in 0..255
                    /\ out.returns = modbus_crc(arg)

\* the accumulator right after the XOR with the last of the ASCII digits 1
\* to 9, with its 8 shift rounds still to run
C26_Witness ==
    /\ InCrcLoop
    /\ arg = <<49, 50, 51, 52, 53, 54, 55, 56, 57>>
    /\ out.i = 9 /\ out.n = 8
    /\ out.crc > 255

====
